---- MODULE Spec2Model ----
\* InProcessKernelManager (ipykernel/inprocess/manager.py): the manager's kernel
\* slot, the kernel objects it constructs, and the coroutines suspended in
\* start_kernel, with one action per public method.
EXTENDS Naturals, Sequences, FiniteSets

\* ---------------------------------------------------------------- bounds
MaxHandles == 2     \* kernel objects constructed in one run

\* ---------------------------------------------------------------- values
None == 0
NoExc == "none"
Handles == 1..MaxHandles
\* the error a collaborator (constructor, start, iopub_thread.stop, stop) may raise
Errors == {"OSError"}
MayRaise == {NoExc} \cup Errors
TASK_STATUS_IGNORED == "TASK_STATUS_IGNORED"
TaskStatuses == {TASK_STATUS_IGNORED, "task_status_1"}
\* a caller may also leave task_status out
Omitted == "omitted"
TaskStatusArgs == TaskStatuses \cup {Omitted}
Signums == {2, 15}
\* the keyword options a caller of client() may pass, and their values
ClientKeys == {"kernel", "connection_file"}
KernelOptions == {None, 1}

VARIABLES
    kernel,     \* self.kernel: None or the kernel object held
    handles,    \* the kernel objects constructed so far and the calls made on them
    pending,    \* coroutines suspended at the await of start_kernel
    replaced,   \* kernel objects overwritten in the slot by start_kernel
    last,       \* the most recent call on the manager and how it ended
    trace,      \* what that call did, in order: collaborator calls and slot writes
    clients     \* the kernel references held by the clients that client() built

vars == <<kernel, handles, pending, replaced, last, trace, clients>>

\* a kernel object never constructed
NoHandle == [made |-> FALSE, start |-> "no", iopub_stop_called |-> FALSE, stop_called |-> FALSE]

Made(hs) == {h \in Handles : hs[h].made}

\* the identity of the next object the constructor returns
NewHandle(hs) == Cardinality(Made(hs)) + 1

\* how a call ended, as its caller sees it. status: "returned"; "raised" (the
\* call raised before any await); "suspended" (start_kernel or restart_kernel is
\* awaiting start()); "completed" / "failed" (the awaited start() returned /
\* raised, and with it the call)
Result(op, args, status, exc, ret, h) == [op |-> op, args |-> args, status |-> status, exc |-> exc, ret |-> ret, h |-> h]

\* ------------------------------------------------------------- the methods
\* Each method is a function of the slot k, the kernel objects hs, its arguments
\* and what its collaborators do (raise or return); it yields the new slot and
\* objects, the trace of its effects, the error it raises and, for start_kernel,
\* the object whose start() it is left awaiting and the object it overwrote.

\* one effect of a method: a collaborator call on a kernel object (with what it
\* raised) or a write of the slot
Ev(call, on, arg, raised) == [call |-> call, on |-> on, arg |-> arg, raised |-> raised]

\* _kill_kernel that calls stop() and forgets to clear the slot
_kill_kernel_keeps_slot(k, hs, stopExc) ==
    IF k = None
    THEN [kernel |-> k, handles |-> hs, trace |-> <<>>, exc |-> NoExc]
    ELSE [kernel |-> k, handles |-> [hs EXCEPT ![k].stop_called = TRUE],
          trace |-> <<Ev("stop", k, "-", stopExc)>>, exc |-> stopExc]

\* if self.kernel: self.kernel.stop(); self.kernel = None
_kill_kernel(k, hs, stopExc) ==
    IF k = None
    THEN [kernel |-> k, handles |-> hs, trace |-> <<>>, exc |-> NoExc]
    ELSE IF stopExc # NoExc
         THEN [kernel |-> k, handles |-> [hs EXCEPT ![k].stop_called = TRUE],
               trace |-> <<Ev("stop", k, "-", stopExc)>>, exc |-> stopExc]
         ELSE [kernel |-> None, handles |-> [hs EXCEPT ![k].stop_called = TRUE],
               trace |-> <<Ev("stop", k, "-", NoExc), Ev("kernel:=", None, "-", NoExc)>>, exc |-> NoExc]

\* shutdown_kernel without the "if self.kernel" test: None has no iopub_thread
shutdown_kernel_unguarded(k, hs, iopubExc, stopExc) ==
    IF k = None
    THEN [kernel |-> k, handles |-> hs, trace |-> <<>>, exc |-> "AttributeError"]
    ELSE LET hs1 == [hs EXCEPT ![k].iopub_stop_called = TRUE]
             t1 == <<Ev("iopub_thread.stop", k, "-", iopubExc)>>
         IN IF iopubExc # NoExc
            THEN [kernel |-> k, handles |-> hs1, trace |-> t1, exc |-> iopubExc]
            ELSE LET r == _kill_kernel(k, hs1, stopExc)
                 IN [r EXCEPT !.trace = t1 \o r.trace]

\* shutdown_kernel that leaves the iopub thread running
shutdown_kernel_no_iopub(k, hs, iopubExc, stopExc) ==
    _kill_kernel(k, hs, stopExc)

\* shutdown_kernel that kills the kernel first and stops the iopub thread after
shutdown_kernel_kill_first(k, hs, iopubExc, stopExc) ==
    IF k = None
    THEN [kernel |-> k, handles |-> hs, trace |-> <<>>, exc |-> NoExc]
    ELSE LET r == _kill_kernel(k, hs, stopExc)
         IN IF r.exc # NoExc
            THEN r
            ELSE [kernel |-> r.kernel, handles |-> [r.handles EXCEPT ![k].iopub_stop_called = TRUE],
                  trace |-> r.trace \o <<Ev("iopub_thread.stop", k, "-", iopubExc)>>, exc |-> iopubExc]

\* shutdown_kernel that leaves a kernel alone while its start() is in progress
shutdown_kernel_not_starting(k, hs, iopubExc, stopExc) ==
    IF k = None \/ hs[k].start = "running"
    THEN [kernel |-> k, handles |-> hs, trace |-> <<>>, exc |-> NoExc]
    ELSE LET hs1 == [hs EXCEPT ![k].iopub_stop_called = TRUE]
             t1 == <<Ev("iopub_thread.stop", k, "-", iopubExc)>>
         IN IF iopubExc # NoExc
            THEN [kernel |-> k, handles |-> hs1, trace |-> t1, exc |-> iopubExc]
            ELSE LET r == _kill_kernel(k, hs1, stopExc)
                 IN [r EXCEPT !.trace = t1 \o r.trace]

\* if self.kernel: self.kernel.iopub_thread.stop(); self._kill_kernel()
shutdown_kernel(k, hs, iopubExc, stopExc) ==
    IF k = None
    THEN [kernel |-> k, handles |-> hs, trace |-> <<>>, exc |-> NoExc]
    ELSE LET hs1 == [hs EXCEPT ![k].iopub_stop_called = TRUE]
             t1 == <<Ev("iopub_thread.stop", k, "-", iopubExc)>>
         IN IF iopubExc # NoExc
            THEN [kernel |-> k, handles |-> hs1, trace |-> t1, exc |-> iopubExc]
            ELSE LET r == _kill_kernel(k, hs1, stopExc)
                 IN [r EXCEPT !.trace = t1 \o r.trace]

\* task_status: TaskStatus = TASK_STATUS_IGNORED
TaskStatusParam(arg) == IF arg = Omitted THEN TASK_STATUS_IGNORED ELSE arg

\* start_kernel that keeps the new kernel in a local and never stores it
start_kernel_local(k, hs, task_status, kwds, ctorExc) ==
    IF ctorExc # NoExc
    THEN [kernel |-> k, handles |-> hs, trace |-> <<Ev("InProcessKernel", None, "-", ctorExc)>>,
          exc |-> ctorExc, awaiting |-> None, overwrote |-> None]
    ELSE LET h == NewHandle(hs)
         IN [kernel |-> k,
             handles |-> [hs EXCEPT ![h] = [NoHandle EXCEPT !.made = TRUE, !.start = "running"]],
             trace |-> <<Ev("InProcessKernel", h, "-", NoExc), Ev("start", h, task_status, NoExc)>>,
             exc |-> NoExc, awaiting |-> h, overwrote |-> None]

\* start_kernel that defensively shuts a held kernel down before replacing it
start_kernel_teardown(k, hs, task_status, kwds, ctorExc) ==
    LET r == shutdown_kernel(k, hs, NoExc, NoExc)
        h == NewHandle(hs)
    IN IF ctorExc # NoExc
       THEN [kernel |-> r.kernel, handles |-> r.handles, trace |-> r.trace \o <<Ev("InProcessKernel", None, "-", ctorExc)>>,
             exc |-> ctorExc, awaiting |-> None, overwrote |-> None]
       ELSE [kernel |-> h,
             handles |-> [r.handles EXCEPT ![h] = [NoHandle EXCEPT !.made = TRUE, !.start = "running"]],
             trace |-> r.trace \o <<Ev("InProcessKernel", h, "-", NoExc), Ev("kernel:=", h, "-", NoExc), Ev("start", h, task_status, NoExc)>>,
             exc |-> NoExc, awaiting |-> h, overwrote |-> k]

\* self.kernel = InProcessKernel(...); await self.kernel.start(task_status=...)
\* up to the point where the coroutine is suspended in start(); kwds are unused
start_kernel(k, hs, task_status, kwds, ctorExc) ==
    IF ctorExc # NoExc
    THEN [kernel |-> k, handles |-> hs, trace |-> <<Ev("InProcessKernel", None, "-", ctorExc)>>,
          exc |-> ctorExc, awaiting |-> None, overwrote |-> None]
    ELSE LET h == NewHandle(hs)
         IN [kernel |-> h,
             handles |-> [hs EXCEPT ![h] = [NoHandle EXCEPT !.made = TRUE, !.start = "running"]],
             trace |-> <<Ev("InProcessKernel", h, "-", NoExc), Ev("kernel:=", h, "-", NoExc), Ev("start", h, task_status, NoExc)>>,
             exc |-> NoExc, awaiting |-> h, overwrote |-> k]

\* start_kernel that takes the kernel out of the slot again when its start() fails
start_kernel_resumed_rollback(k, hs, h, startExc) ==
    [kernel |-> IF startExc # NoExc /\ k = h THEN None ELSE k,
     handles |-> [hs EXCEPT ![h].start = IF startExc = NoExc THEN "done" ELSE "raised"],
     trace |-> <<Ev("start:done", h, "-", startExc)>>,
     exc |-> startExc]

\* await self.kernel.start(task_status=task_status), resumed: the start() of
\* kernel object h has returned or raised, and start_kernel with it; nothing
\* follows the await
start_kernel_resumed(k, hs, h, startExc) ==
    [kernel |-> k,
     handles |-> [hs EXCEPT ![h].start = IF startExc = NoExc THEN "done" ELSE "raised"],
     trace |-> <<Ev("start:done", h, "-", startExc)>>,
     exc |-> startExc]

\* restart_kernel in which now=True kills the kernel at once, skipping the
\* orderly stop of the iopub thread
restart_kernel_now(k, hs, now, newports, task_status, kw, iopubExc, stopExc, ctorExc) ==
    LET r == IF now THEN _kill_kernel(k, hs, stopExc) ELSE shutdown_kernel(k, hs, iopubExc, stopExc)
    IN IF r.exc # NoExc
       THEN [kernel |-> r.kernel, handles |-> r.handles, trace |-> r.trace, exc |-> r.exc, awaiting |-> None, overwrote |-> None]
       ELSE LET s == start_kernel(r.kernel, r.handles, task_status, kw, ctorExc)
            IN [s EXCEPT !.trace = r.trace \o s.trace]

\* restart_kernel that catches a failure of its start step and raises its own
\* RuntimeError in its place
restart_kernel_wraps(k, hs, now, newports, task_status, kw, iopubExc, stopExc, ctorExc) ==
    LET r == shutdown_kernel(k, hs, iopubExc, stopExc)
    IN IF r.exc # NoExc
       THEN [kernel |-> r.kernel, handles |-> r.handles, trace |-> r.trace, exc |-> r.exc, awaiting |-> None, overwrote |-> None]
       ELSE LET s == start_kernel(r.kernel, r.handles, task_status, kw, ctorExc)
            IN [s EXCEPT !.trace = r.trace \o s.trace, !.exc = IF s.exc # NoExc THEN "RuntimeError" ELSE NoExc]

\* restart_kernel that starts the new kernel without passing its task_status on
restart_kernel_drops_status(k, hs, now, newports, task_status, kw, iopubExc, stopExc, ctorExc) ==
    LET r == shutdown_kernel(k, hs, iopubExc, stopExc)
    IN IF r.exc # NoExc
       THEN [kernel |-> r.kernel, handles |-> r.handles, trace |-> r.trace, exc |-> r.exc, awaiting |-> None, overwrote |-> None]
       ELSE LET s == start_kernel(r.kernel, r.handles, TASK_STATUS_IGNORED, kw, ctorExc)
            IN [s EXCEPT !.trace = r.trace \o s.trace]

\* self.shutdown_kernel(); await self.start_kernel(task_status=task_status, **kw)
restart_kernel(k, hs, now, newports, task_status, kw, iopubExc, stopExc, ctorExc) ==
    LET r == shutdown_kernel(k, hs, iopubExc, stopExc)
    IN IF r.exc # NoExc
       THEN [kernel |-> r.kernel, handles |-> r.handles, trace |-> r.trace, exc |-> r.exc, awaiting |-> None, overwrote |-> None]
       ELSE LET s == start_kernel(r.kernel, r.handles, task_status, kw, ctorExc)
            IN [s EXCEPT !.trace = r.trace \o s.trace]

\* return self.kernel is not None
has_kernel(k) == k # None

\* is_alive that asks whether the held kernel has finished starting
is_alive_started(k) == k # None /\ handles[k].start = "done"

\* return self.kernel is not None
is_alive(k) == k # None

\* interrupt_kernel that only objects when a kernel is running
interrupt_kernel_if_running(k) ==
    IF k = None
    THEN [exc |-> NoExc, msg |-> None]
    ELSE [exc |-> "NotImplementedError", msg |-> "Cannot interrupt in-process kernel."]

\* msg = "Cannot interrupt in-process kernel."; raise NotImplementedError(msg)
interrupt_kernel(k) == [exc |-> "NotImplementedError", msg |-> "Cannot interrupt in-process kernel."]

\* msg = "Cannot signal in-process kernel."; raise NotImplementedError(msg)
signal_kernel(k, signum) == [exc |-> "NotImplementedError", msg |-> "Cannot signal in-process kernel."]

\* client that lets a kernel option of the caller win (kwargs.setdefault)
client_setdefault(k, kwargs) == [key \in DOMAIN kwargs \cup {"kernel"} |-> IF key = "kernel" /\ key \notin DOMAIN kwargs THEN k ELSE kwargs[key]]

\* kwargs["kernel"] = self.kernel; return super().client(**kwargs)
\* the client is built from the options it is handed
client(k, kwargs) == [key \in DOMAIN kwargs \cup {"kernel"} |-> IF key = "kernel" THEN k ELSE kwargs[key]]

\* ------------------------------------------------------------------ state
\* what the collaborators a call reaches may do: iopub_thread.stop() and stop()
\* are reached only with a kernel held, stop() only once the thread stop returned
IopubOutcomes(k) == IF k = None THEN {NoExc} ELSE MayRaise
StopOutcomes(k, iopubExc) == IF k = None \/ iopubExc # NoExc THEN {NoExc} ELSE MayRaise

Init ==
    /\ kernel = None
    /\ handles = [h \in Handles |-> NoHandle]
    /\ pending = {}
    /\ replaced = {}
    /\ last = Result("__init__", <<>>, "returned", NoExc, None, None)
    /\ trace = <<>>
    /\ clients = {}

\* the caller's view of a start_kernel / restart_kernel call that has run up to
\* its await (or raised before it)
Begun(op, args, r) ==
    /\ kernel' = r.kernel
    /\ handles' = r.handles
    /\ trace' = r.trace
    /\ pending' = IF r.awaiting = None THEN pending ELSE pending \cup {[op |-> op, h |-> r.awaiting]}
    /\ replaced' = IF r.overwrote = None THEN replaced ELSE replaced \cup {r.overwrote}
    /\ last' = IF r.exc # NoExc
               THEN Result(op, args, "raised", r.exc, None, None)
               ELSE Result(op, args, "suspended", NoExc, None, r.awaiting)

CanStart(hs) == Cardinality(Made(hs)) < MaxHandles

StartKernel ==
    \E task_status \in TaskStatusArgs, ctorExc \in MayRaise :
        /\ CanStart(handles)
        /\ LET r == start_kernel(kernel, handles, TaskStatusParam(task_status), <<>>, ctorExc)
           IN Begun("start_kernel", [task_status |-> task_status], r)
        /\ UNCHANGED clients

ShutdownKernel ==
    \E iopubExc \in IopubOutcomes(kernel) :
      \E stopExc \in StopOutcomes(kernel, iopubExc) :
        LET r == shutdown_kernel(kernel, handles, iopubExc, stopExc)
        IN /\ kernel' = r.kernel
           /\ handles' = r.handles
           /\ trace' = r.trace
           /\ last' = Result("shutdown_kernel", <<>>, IF r.exc = NoExc THEN "returned" ELSE "raised", r.exc, None, None)
           /\ UNCHANGED <<pending, replaced, clients>>

\* restart_kernel that points the clients of the old kernel at the new one
RestartKernel_rebinds ==
    \E now \in BOOLEAN, newports \in BOOLEAN, task_status \in TaskStatusArgs, iopubExc \in IopubOutcomes(kernel), ctorExc \in MayRaise :
      \E stopExc \in StopOutcomes(kernel, iopubExc) :
        /\ CanStart(handles)
        /\ LET r == restart_kernel(kernel, handles, now, newports, TaskStatusParam(task_status), <<>>, iopubExc, stopExc, ctorExc)
           IN /\ Begun("restart_kernel", [now |-> now, newports |-> newports, task_status |-> task_status], r)
              /\ clients' = {IF c = kernel /\ c # None THEN r.kernel ELSE c : c \in clients}

RestartKernel ==
    \E now \in BOOLEAN, newports \in BOOLEAN, task_status \in TaskStatusArgs, iopubExc \in IopubOutcomes(kernel), ctorExc \in MayRaise :
      \E stopExc \in StopOutcomes(kernel, iopubExc) :
        /\ CanStart(handles)
        /\ LET r == restart_kernel(kernel, handles, now, newports, TaskStatusParam(task_status), <<>>, iopubExc, stopExc, ctorExc)
           IN Begun("restart_kernel", [now |-> now, newports |-> newports, task_status |-> task_status], r)
        /\ UNCHANGED clients

\* the awaited start() of kernel object t.h returns or raises, and with it the
\* start_kernel (or restart_kernel) coroutine that awaits it
StartCompletes ==
    \E t \in pending, startExc \in MayRaise :
        LET r == start_kernel_resumed(kernel, handles, t.h, startExc)
        IN /\ pending' = pending \ {t}
           /\ kernel' = r.kernel
           /\ handles' = r.handles
           /\ trace' = r.trace
           /\ last' = Result(t.op, <<>>, IF r.exc = NoExc THEN "completed" ELSE "failed", r.exc, None, t.h)
           /\ UNCHANGED <<replaced, clients>>

HasKernel ==
    /\ last' = Result("has_kernel", <<>>, "returned", NoExc, has_kernel(kernel), None)
    /\ trace' = <<>>
    /\ UNCHANGED <<kernel, handles, pending, replaced, clients>>

\* is_alive that drops a kernel whose stop() has been called
IsAlive_reaps ==
    /\ last' = Result("is_alive", <<>>, "returned", NoExc, is_alive(kernel), None)
    /\ trace' = <<>>
    /\ kernel' = IF kernel # None /\ handles[kernel].stop_called THEN None ELSE kernel
    /\ UNCHANGED <<handles, pending, replaced, clients>>

IsAlive ==
    /\ last' = Result("is_alive", <<>>, "returned", NoExc, is_alive(kernel), None)
    /\ trace' = <<>>
    /\ UNCHANGED <<kernel, handles, pending, replaced, clients>>

InterruptKernel ==
    LET r == interrupt_kernel(kernel)
    IN /\ last' = Result("interrupt_kernel", <<>>, IF r.exc = NoExc THEN "returned" ELSE "raised", r.exc, r.msg, None)
       /\ trace' = <<>>
       /\ UNCHANGED <<kernel, handles, pending, replaced, clients>>

SignalKernel ==
    \E signum \in Signums :
        LET r == signal_kernel(kernel, signum)
        IN /\ last' = Result("signal_kernel", [signum |-> signum], IF r.exc = NoExc THEN "returned" ELSE "raised", r.exc, r.msg, None)
           /\ trace' = <<>>
           /\ UNCHANGED <<kernel, handles, pending, replaced, clients>>

Client ==
    \E keys \in SUBSET ClientKeys, ko \in KernelOptions :
        LET kwargs == [key \in keys |-> IF key = "kernel" THEN ko ELSE "cf.json"]
        IN /\ last' = Result("client", kwargs, "returned", NoExc, client(kernel, kwargs), None)
           /\ trace' = <<>>
           /\ clients' = clients \cup {client(kernel, kwargs)["kernel"]}
           /\ UNCHANGED <<kernel, handles, pending, replaced>>

Next ==
    \/ StartKernel
    \/ ShutdownKernel
    \/ RestartKernel
    \/ StartCompletes
    \/ HasKernel
    \/ IsAlive
    \/ InterruptKernel
    \/ SignalKernel
    \/ Client

Spec == Init /\ [][Next]_vars

\* ------------------------------------------------------------- properties
IsPrefix(a, b) == Len(a) <= Len(b) /\ \A i \in 1..Len(a) : a[i] = b[i]

\* the calls and slot writes of a trace, without their outcomes
Effects(t) == [i \in 1..Len(t) |-> <<t[i].call, t[i].on>>]

\* the positions of a trace at which a collaborator raised
RaisedAt(t) == {i \in 1..Len(t) : t[i].raised # NoExc}

TornDown(h) == handles[h].iopub_stop_called /\ handles[h].stop_called

\* started and not stopped
Live == {h \in Made(handles) : handles[h].start \in {"running", "done"} /\ ~handles[h].stop_called}

\* C1: in every reachable state is_alive() is true iff the kernel slot is
\* non-empty, has_kernel has the same value, and a call of either returned
\* exactly that.
C1_AliveIffKernelHeld ==
    /\ is_alive(kernel) = (kernel # None)
    /\ has_kernel(kernel) = is_alive(kernel)
    /\ (last.op = "is_alive" => last.ret = (kernel # None))
    /\ (last.op = "has_kernel" => last.ret = (kernel # None))

\* is_alive() answered true while the held kernel was still starting
C1_Witness ==
    /\ last.op = "is_alive"
    /\ last.ret = TRUE
    /\ kernel # None
    /\ handles[kernel].start = "running"

\* C2: when start_kernel and shutdown_kernel are called one after another,
\* is_alive() is true right after a start_kernel that was awaited to completion
\* with no call in between, and false right after a shutdown_kernel that returned.
C2_AliveAfterStartDeadAfterShutdown ==
    [][ /\ (last'.op = "shutdown_kernel" /\ last'.status = "returned" => ~is_alive(kernel'))
        /\ (/\ last.op = "start_kernel" /\ last.status = "suspended"
            /\ last'.op = "start_kernel" /\ last'.status = "completed" /\ last'.h = last.h
            => is_alive(kernel')) ]_vars

\* the second shutdown of start, shutdown, start, shutdown has returned
C2_Witness ==
    /\ last.op = "shutdown_kernel"
    /\ last.status = "returned"
    /\ Len(trace) = 3
    /\ ~is_alive(kernel)
    /\ \A h \in Handles : handles[h].start = "done" /\ TornDown(h)
    /\ replaced = {}

\* C3: shutdown_kernel with no kernel held returns without error, calls nothing
\* and leaves the manager as it was (is_alive() false); so a shutdown_kernel
\* right after one that returned changes nothing and does not fail.
C3_ShutdownIdempotent ==
    [][ /\ (last'.op = "shutdown_kernel" /\ kernel = None
            => /\ last'.status = "returned" /\ last'.exc = NoExc
               /\ trace' = <<>>
               /\ ~is_alive(kernel')
               /\ UNCHANGED <<kernel, handles, pending, replaced>>)
        /\ (last.op = "shutdown_kernel" /\ last.status = "returned" /\ last'.op = "shutdown_kernel"
            => /\ last'.status = "returned" /\ last'.exc = NoExc
               /\ trace' = <<>>
               /\ UNCHANGED <<kernel, handles, pending, replaced>>) ]_vars

\* a shutdown_kernel that found nothing to do, after a kernel had been shut down
C3_Witness ==
    /\ last.op = "shutdown_kernel"
    /\ last.status = "returned"
    /\ trace = <<>>
    /\ kernel = None
    /\ \E h \in Made(handles) : TornDown(h)

\* what shutdown_kernel() followed by start_kernel(task_status) does from slot k
\* and objects hs, for given collaborator outcomes
ShutdownThenStart(k, hs, task_status, iopubExc, stopExc, ctorExc) ==
    LET r == shutdown_kernel(k, hs, iopubExc, stopExc)
    IN IF r.exc # NoExc
       THEN [kernel |-> r.kernel, handles |-> r.handles, trace |-> r.trace, exc |-> r.exc, awaiting |-> None]
       ELSE LET s == start_kernel(r.kernel, r.handles, task_status, <<>>, ctorExc)
            IN [kernel |-> s.kernel, handles |-> s.handles, trace |-> r.trace \o s.trace, exc |-> s.exc, awaiting |-> s.awaiting]

\* C4: from every state and for every now/newports, restart_kernel makes the
\* collaborator calls, leaves the slot and the kernel objects, and raises or
\* suspends exactly as shutdown_kernel() followed by start_kernel() with the same
\* status token does.
C4_RestartIsShutdownThenStart ==
    [][ last'.op = "restart_kernel" /\ last'.status \in {"suspended", "raised"}
        => \E iopubExc \in MayRaise, stopExc \in MayRaise, ctorExc \in MayRaise :
             LET e == ShutdownThenStart(kernel, handles, TaskStatusParam(last'.args.task_status), iopubExc, stopExc, ctorExc)
             IN /\ kernel' = e.kernel
                /\ handles' = e.handles
                /\ trace' = e.trace
                /\ last'.exc = e.exc
                /\ last'.h = e.awaiting
                /\ pending' = IF e.awaiting = None THEN pending ELSE pending \cup {[op |-> "restart_kernel", h |-> e.awaiting]} ]_vars

\* restart_kernel(now=True, newports=True) of a running kernel: the old kernel is
\* torn down and a new one is being started
C4_Witness ==
    /\ last.op = "restart_kernel"
    /\ last.status = "suspended"
    /\ last.args.now /\ last.args.newports
    /\ Len(trace) = 6
    /\ kernel = 2
    /\ TornDown(1)

\* C5: interrupt_kernel() and signal_kernel(n) raise NotImplementedError in
\* every state and for every n, and leave the slot, the kernel objects and
\* is_alive() as they were.
C5_InterruptSignalUnsupported ==
    [][ last'.op \in {"interrupt_kernel", "signal_kernel"}
        => /\ last'.status = "raised"
           /\ last'.exc = "NotImplementedError"
           /\ is_alive(kernel') = is_alive(kernel)
           /\ UNCHANGED <<kernel, handles, pending, replaced>> ]_vars

\* signal_kernel(15) refused after the kernel had been shut down
C5_Witness ==
    /\ last.op = "signal_kernel"
    /\ last.args.signum = 15
    /\ last.exc = "NotImplementedError"
    /\ kernel = None
    /\ Made(handles) # {}

\* C6: client(options) returns, without raising, a client whose kernel is the
\* slot's value at the call (None before any start or after shutdown), whatever
\* kernel option the caller passed; the other options are the caller's.
C6_ClientBoundToSlot ==
    last.op = "client"
    => /\ last.status = "returned"
       /\ last.ret["kernel"] = kernel
       /\ \A key \in DOMAIN last.args \ {"kernel"} : last.ret[key] = last.args[key]

\* client(kernel=<a kernel>) before any start: the client is bound to None
C6_Witness ==
    /\ last.op = "client"
    /\ "kernel" \in DOMAIN last.args
    /\ last.args["kernel"] # None
    /\ last.ret["kernel"] = None
    /\ Made(handles) = {}

\* C7 as claimed: at most one kernel is live, and every kernel the manager no
\* longer references has had its iopub thread stopped and its stop() called.
C7_NoOrphans ==
    /\ Cardinality(Live) <= 1
    /\ \A h \in Made(handles) \ {kernel} : TornDown(h)

\* C7, amended: a kernel the manager no longer references has had its iopub
\* thread stop and its stop() called, unless start_kernel overwrote it in the
\* slot; as long as start_kernel has overwritten none, at most one kernel is live.
C7_NoOrphansButOverwritten ==
    /\ \A h \in Made(handles) \ {kernel} : TornDown(h) \/ h \in replaced
    /\ (replaced = {} => Cardinality(Live) <= 1)
    /\ \A h \in replaced : h # kernel

\* a second kernel is held and running, the first was shut down before
C7_Witness ==
    /\ kernel = 2
    /\ replaced = {}
    /\ TornDown(1)
    /\ Live = {2}

\* C8 as claimed: neither shutdown_kernel nor is_alive ever raises.
C8_NeverRaise ==
    last.op \in {"shutdown_kernel", "is_alive"} => last.status # "raised" /\ last.exc = NoExc

\* C8, amended: is_alive never raises; shutdown_kernel raises nothing of its
\* own: it returns when every collaborator it called returned (and when it
\* called none), and otherwise raises the error of the one that raised, which
\* is the last thing it did.
C8_RaiseOnlyFromCollaborators ==
    /\ (last.op = "is_alive" => last.status = "returned" /\ last.exc = NoExc)
    /\ (last.op = "shutdown_kernel"
        => IF RaisedAt(trace) = {}
           THEN last.status = "returned" /\ last.exc = NoExc
           ELSE /\ last.status = "raised"
                /\ RaisedAt(trace) = {Len(trace)}
                /\ last.exc = trace[Len(trace)].raised
                /\ trace[Len(trace)].call \in {"iopub_thread.stop", "stop"})

\* shutdown_kernel raised what the kernel's stop() raised
C8_Witness ==
    /\ last.op = "shutdown_kernel"
    /\ last.status = "raised"
    /\ last.exc = "OSError"
    /\ Len(trace) = 2
    /\ trace[2].call = "stop"

\* the three steps of a shutdown of kernel k
ShutdownSteps(k) == << <<"iopub_thread.stop", k>>, <<"stop", k>>, <<"kernel:=", None>> >>

\* C9: shutdown_kernel with a kernel held stops the kernel's iopub thread, then
\* calls its stop(), then clears the slot: each once, in this order, all three
\* when it returns; the slot is never cleared before the thread stop.
C9_ShutdownOrder ==
    [][ last'.op = "shutdown_kernel" /\ kernel # None
        => /\ IsPrefix(Effects(trace'), ShutdownSteps(kernel))
           /\ Len(trace') >= 1
           /\ (last'.status = "returned" => Effects(trace') = ShutdownSteps(kernel) /\ kernel' = None)
           /\ (kernel' = None => handles'[kernel].iopub_stop_called /\ handles'[kernel].stop_called) ]_vars

\* a shutdown_kernel of a started kernel that ran all three steps
C9_Witness ==
    /\ last.op = "shutdown_kernel"
    /\ last.status = "returned"
    /\ Effects(trace) = ShutdownSteps(1)
    /\ handles[1].start = "done"
    /\ kernel = None

\* C10: start_kernel called with a kernel held puts a newly constructed kernel
\* in the slot and tears nothing down: it calls neither the previous kernel's
\* iopub thread stop nor its stop(), and changes no existing kernel object; when
\* it completes, the slot holds the new kernel.
C10_StartReplacesWithoutTeardown ==
    [][ /\ (last'.op = "start_kernel" /\ last'.status = "suspended" /\ kernel # None
            => /\ kernel' = last'.h
               /\ kernel' \notin Made(handles)
               /\ kernel' \in Made(handles')
               /\ \A h \in Made(handles) : handles'[h] = handles[h]
               /\ \A i \in 1..Len(trace') : trace'[i].call \notin {"iopub_thread.stop", "stop"}
               /\ \A i \in 1..Len(trace') : trace'[i].on # kernel)
        /\ (/\ last.op = "start_kernel" /\ last.status = "suspended"
            /\ last'.op = "start_kernel" /\ last'.status = "completed" /\ last'.h = last.h
            => kernel' = last.h) ]_vars

\* start_kernel has replaced the running first kernel, which was never stopped
C10_Witness ==
    /\ last.op = "start_kernel"
    /\ last.status = "suspended"
    /\ last.h = 2
    /\ kernel = 2
    /\ replaced = {1}
    /\ ~handles[1].iopub_stop_called /\ ~handles[1].stop_called

Queries == {"is_alive", "has_kernel", "client", "interrupt_kernel", "signal_kernel"}

\* C11: the kernel slot is written only by start_kernel, shutdown_kernel and
\* restart_kernel (not by the completion of an awaited start()); is_alive(),
\* has_kernel, client(), interrupt_kernel() and signal_kernel() leave the slot
\* and every kernel object as they were, in every state.
C11_SlotWrittenOnlyByLifecycle ==
    [][ /\ (kernel' # kernel
            => /\ last'.op \in {"start_kernel", "shutdown_kernel", "restart_kernel"}
               /\ last'.status \in {"suspended", "returned", "raised"}
               /\ \E i \in 1..Len(trace') : trace'[i].call = "kernel:=" /\ trace'[i].on = kernel')
        /\ (last'.op \in Queries => UNCHANGED <<kernel, handles, pending, replaced>>) ]_vars

\* is_alive() asked of a manager whose kernel's stop() raised during a shutdown:
\* the kernel is still in the slot
C11_Witness ==
    /\ last.op = "is_alive"
    /\ last.ret = TRUE
    /\ kernel # None
    /\ handles[kernel].stop_called

\* the positions of a trace at which a given collaborator was called
CallsOf(t, call) == {i \in 1..Len(t) : t[i].call = call}

\* C12: an error raised by the InProcessKernel constructor or by the kernel's
\* start() reaches the caller of start_kernel, and of restart_kernel, as it was
\* raised: the call raises exactly that error, nothing is called after it (no
\* retry), and a call that did not raise met no error.
C12_StartErrorsPropagate ==
    last.op \in {"start_kernel", "restart_kernel"}
    => /\ (last.status = "raised"
           => /\ RaisedAt(trace) = {Len(trace)}
              /\ last.exc = trace[Len(trace)].raised
              /\ last.exc \in Errors)
       /\ (last.status = "failed"
           => /\ trace = <<Ev("start:done", last.h, "-", last.exc)>>
              /\ last.exc \in Errors
              /\ handles[last.h].start = "raised")
       /\ (last.status \in {"suspended", "completed"} => RaisedAt(trace) = {} /\ last.exc = NoExc)
       /\ Cardinality(CallsOf(trace, "InProcessKernel")) <= 1
       /\ Cardinality(CallsOf(trace, "start")) <= 1

\* restart_kernel raised the OSError that the InProcessKernel constructor
\* raised, after the running kernel had been shut down
C12_Witness ==
    /\ last.op = "restart_kernel"
    /\ last.status = "raised"
    /\ last.exc = "OSError"
    /\ Len(trace) = 4
    /\ trace[4].call = "InProcessKernel"
    /\ trace[4].raised = "OSError"

\* C13: start_kernel (and restart_kernel) is suspended exactly as long as the
\* start() of the kernel it constructed has not completed, and completes in the
\* step in which that start() completes; the last thing it does before
\* suspending is to call start() with the caller's status token, which is
\* TASK_STATUS_IGNORED when the caller passed none.
C13_StartAwaitsKernelStart ==
    [][ /\ (last'.op \in {"start_kernel", "restart_kernel"} /\ last'.status = "suspended"
            => /\ trace'[Len(trace')] = Ev("start", last'.h,
                                           IF last'.args.task_status = Omitted THEN TASK_STATUS_IGNORED ELSE last'.args.task_status,
                                           NoExc)
               /\ handles'[last'.h].start = "running"
               /\ [op |-> last'.op, h |-> last'.h] \in pending'
               /\ last'.h \notin Made(handles))
        /\ (\A t \in pending' : handles'[t.h].start = "running")
        /\ (\A h \in Made(handles') : handles'[h].start = "running" => \E t \in pending' : t.h = h)
        /\ (last'.status \in {"completed", "failed"}
            => /\ handles[last'.h].start = "running"
               /\ handles'[last'.h].start = (IF last'.status = "completed" THEN "done" ELSE "raised")
               /\ [op |-> last'.op, h |-> last'.h] \in pending
               /\ [op |-> last'.op, h |-> last'.h] \notin pending') ]_vars

\* restart_kernel(task_status=task_status_1) is suspended in a start() that was
\* handed task_status_1
C13_Witness ==
    /\ last.op = "restart_kernel"
    /\ last.status = "suspended"
    /\ last.args.task_status = "task_status_1"
    /\ trace[Len(trace)].call = "start"
    /\ trace[Len(trace)].arg = "task_status_1"
    /\ handles[last.h].start = "running"

\* C14: the new kernel is put in the slot before its start() is awaited and is
\* not taken out when start() raises: after a start_kernel (or restart_kernel)
\* that failed in start(), with no call in between, the slot holds the new
\* kernel and is_alive() is true. A restart_kernel of a held kernel whose start
\* step fails (in the constructor or in start()) has by then called the old
\* kernel's iopub thread stop and stop() and does not put it back.
C14_NoRollbackOnFailedStart ==
    [][ /\ (last'.op \in {"start_kernel", "restart_kernel"} /\ last'.status = "suspended"
            => /\ Len(trace') >= 3
               /\ trace'[Len(trace') - 1] = Ev("kernel:=", last'.h, "-", NoExc)
               /\ trace'[Len(trace')].call = "start")
        /\ (last'.status = "failed" => kernel' = kernel)
        /\ (last.status = "suspended" /\ last'.status = "failed" /\ last'.h = last.h
            => /\ kernel' = last.h
               /\ is_alive(kernel')
               /\ handles'[last.h].start = "raised")
        /\ (/\ last'.op = "restart_kernel" /\ last'.status = "raised" /\ kernel # None
            /\ trace'[Len(trace')].call = "InProcessKernel"
            => /\ kernel' = None
               /\ ~is_alive(kernel')
               /\ handles'[kernel].iopub_stop_called /\ handles'[kernel].stop_called)
        /\ (/\ last.op = "restart_kernel" /\ last.status = "suspended" /\ Len(trace) = 6
            /\ last'.status = "failed" /\ last'.h = last.h
            => /\ kernel' # trace[1].on
               /\ handles'[trace[1].on].iopub_stop_called /\ handles'[trace[1].on].stop_called) ]_vars

\* a restart_kernel of a running kernel has failed in the new kernel's start():
\* the new kernel is in the slot, the old one was stopped
C14_Witness ==
    /\ last.op = "restart_kernel"
    /\ last.status = "failed"
    /\ last.h = 2
    /\ kernel = 2
    /\ is_alive(kernel)
    /\ handles[2].start = "raised"
    /\ handles[1].start = "done"
    /\ TornDown(1)

\* C15: calls made while start_kernel is suspended in start() are not held
\* back. A shutdown_kernel that returns then has stopped and cleared the kernel
\* being started, whose start_kernel stays suspended and later completes
\* without touching the slot, so with is_alive() false. A second start_kernel
\* then puts its own kernel in the slot and calls nothing on the first, which
\* stays started, is never in the slot again and gets no further stop call.
C15_UnguardedInterleaving ==
    [][ /\ (/\ last.op = "start_kernel" /\ last.status = "suspended"
            /\ last'.op = "shutdown_kernel" /\ last'.status = "returned"
            => /\ kernel = last.h
               /\ kernel' = None
               /\ handles'[last.h].iopub_stop_called /\ handles'[last.h].stop_called
               /\ handles'[last.h].start = "running"
               /\ [op |-> "start_kernel", h |-> last.h] \in pending')
        /\ (last'.status = "completed" => kernel' = kernel)
        /\ (last'.status = "completed" /\ kernel = None => ~is_alive(kernel'))
        /\ (/\ last.op = "start_kernel" /\ last.status = "suspended"
            /\ last'.op = "start_kernel" /\ last'.status = "suspended"
            => /\ last'.h # last.h
               /\ kernel' = last'.h
               /\ handles'[last.h] = handles[last.h]
               /\ handles'[last.h].start = "running"
               /\ last.h \in replaced'
               /\ {[op |-> "start_kernel", h |-> last.h], [op |-> "start_kernel", h |-> last'.h]} \subseteq pending')
        /\ (\A h \in replaced :
               /\ h \in replaced'
               /\ kernel' # h
               /\ handles'[h].iopub_stop_called = handles[h].iopub_stop_called
               /\ handles'[h].stop_called = handles[h].stop_called) ]_vars

\* a second start_kernel ran while the first was suspended, a shutdown_kernel
\* ran while the second was suspended, and the second has now completed: the
\* slot is empty and the first kernel is still starting, unreferenced, unstopped
C15_Witness ==
    /\ last.op = "start_kernel"
    /\ last.status = "completed"
    /\ last.h = 2
    /\ ~is_alive(kernel)
    /\ TornDown(2)
    /\ replaced = {1}
    /\ handles[1].start = "running"
    /\ ~handles[1].iopub_stop_called /\ ~handles[1].stop_called

\* C16: a client keeps the kernel reference it was built with. No call but
\* client() changes what any client refers to: after a shutdown_kernel or a
\* restart_kernel a client built before still refers to the old kernel, now
\* stopped and no longer in the slot, and the kernel a restart_kernel
\* constructs is referred to only by clients built after it.
C16_ClientKeepsItsKernel ==
    [][ /\ (last'.op # "client" => clients' = clients)
        /\ (last'.op = "client" => clients' = clients \cup {kernel} /\ last'.ret["kernel"] = kernel)
        /\ (/\ last'.op \in {"shutdown_kernel", "restart_kernel"} /\ last'.status \in {"returned", "suspended"}
            /\ kernel # None /\ kernel \in clients
            => /\ kernel \in clients'
               /\ kernel' # kernel
               /\ handles'[kernel].iopub_stop_called /\ handles'[kernel].stop_called)
        /\ (last'.op = "restart_kernel" /\ last'.status = "suspended"
            => kernel' = last'.h /\ last'.h \notin clients') ]_vars

\* after a restart_kernel, the client built before it refers to the stopped
\* first kernel and no client refers to the kernel now in the slot
C16_Witness ==
    /\ last.op = "restart_kernel"
    /\ last.status = "suspended"
    /\ kernel = 2
    /\ clients = {1}
    /\ TornDown(1)

====
